---- MODULE Spec2Model ----
(***************************************************************************)
(* Model of marlua (src/src/main.rs): a script thread that boots a NES     *)
(* emulator, runs a Lua script whose primitives (wait, toggle, press,      *)
(* release, hold) drive the controller register, and then free-runs; and   *)
(* a display thread that takes the current frame from the shared Frame     *)
(* struct (a Mutex-guarded pixel array plus the AtomicBool `ready`).       *)
(*                                                                         *)
(* The emulator is abstracted to its tick count: the picture rendered      *)
(* after tick t is the pixel array whose every pixel is t.  The clock      *)
(* (loop_start / loop_sleep) only delays and has no state in the model.    *)
(***************************************************************************)
EXTENDS Integers, Sequences, FiniteSets, TLC

(* ------------------------------ bounds -------------------------------- *)
\* pixels per frame in the model (the program has 61440)
NPixels == 2
\* primitive calls the Lua script makes before it ends or fails
MaxCalls == 2
\* largest tick count passed to wait / hold
MaxWait == 2
\* ticks after the bootstrap at which the free-run loop is cut off
MaxTicks == 3
\* longest button list passed to toggle / press / release / hold
MaxButtons == 2

(* ------------------------- controller register ------------------------ *)
Bit(x, k) == (x \div (2 ^ k)) % 2
BitOr(x, k) == IF Bit(x, k) = 1 THEN x ELSE x + 2 ^ k
BitClear(x, k) == IF Bit(x, k) = 1 THEN x - 2 ^ k ELSE x
\* a flip written as `&= !(1 << k)`
BitXorClears(x, k) == BitClear(x, k)
BitXor(x, k) == IF Bit(x, k) = 1 THEN x - 2 ^ k ELSE x + 2 ^ k

\* bit positions of the buttons in the u8 status register
BitA == 0
BitB == 1
BitStart == 3
BitUp == 4
BitDown == 5
BitLeft == 6
BitRight == 7

\* the bootstrap input trace: 171 entries, Start pressed in the 33rd
BootLen == 171
StartAt == 33
\* a trace that still has Start pressed in its last entry
BootstrapEndsPressed ==
    [i \in 1..BootLen |-> IF i \in {StartAt, BootLen} THEN 2 ^ BitStart ELSE 0]
Bootstrap == [i \in 1..BootLen |-> IF i = StartAt THEN 2 ^ BitStart ELSE 0]

(* ------------------------------ strings ------------------------------- *)
\* A Lua string is a sequence of one-character strings.
LowerChars == <<"a", "b", "d", "e", "f", "g", "h", "i", "j", "l", "m",
                "n", "o", "p", "r", "t", "u", "w", "z">>
UpperChars == <<"A", "B", "D", "E", "F", "G", "H", "I", "J", "L", "M",
                "N", "O", "P", "R", "T", "U", "W", "Z">>

UpperChar(c) ==
    IF \E i \in 1..Len(LowerChars) : LowerChars[i] = c
    THEN UpperChars[CHOOSE i \in 1..Len(LowerChars) : LowerChars[i] = c]
    ELSE c

\* a match on the name as the script wrote it
to_uppercase_identity(s) == s

to_uppercase(s) == [i \in 1..Len(s) |-> UpperChar(s[i])]

\* a Lua value that String::from_lua cannot convert (nil, a table, ...)
NilValue == <<"nil">>
from_lua_ok(v) == v # NilValue

\* the match arms shared by toggle, release and press: -1 when no arm matches
ButtonBit(u) ==
    CASE u = <<"A">> \/ u = <<"J", "U", "M", "P">> -> BitA
      [] u = <<"B">> \/ u = <<"R", "U", "N">> -> BitB
      [] u = <<"U">> \/ u = <<"U", "P">> -> BitUp
      [] u = <<"D">> \/ u = <<"D", "O", "W", "N">> -> BitDown
      [] u = <<"L">> \/ u = <<"L", "E", "F", "T">> -> BitLeft
      [] u = <<"R">> \/ u = <<"R", "I", "G", "H", "T">> -> BitRight
      [] OTHER -> -1

Opposite(k) ==
    CASE k = BitUp -> BitDown
      [] k = BitDown -> BitUp
      [] k = BitLeft -> BitRight
      [] k = BitRight -> BitLeft
      [] OTHER -> -1

\* a toggle arm written with |= in place of ^=
ToggleArmSets(input, k) ==
    IF Opposite(k) = -1 THEN BitOr(input, k)
    ELSE BitClear(BitOr(input, k), Opposite(k))

\* one match arm of toggle: flip the bit, clear the opposite direction
ToggleArm(input, k) ==
    IF Opposite(k) = -1 THEN BitXor(input, k)
    ELSE BitClear(BitXor(input, k), Opposite(k))

\* a press arm that leaves the opposite direction alone
PressArmKeepsOpposite(input, k) == BitOr(input, k)

\* one match arm of press: set the bit, clear the opposite direction
PressArm(input, k) ==
    IF Opposite(k) = -1 THEN BitOr(input, k)
    ELSE BitClear(BitOr(input, k), Opposite(k))

\* one match arm of release: clear the bit
ReleaseArm(input, k) == BitClear(input, k)

Arm(op, input, k) ==
    CASE op = "toggle" -> ToggleArm(input, k)
      [] op = "press" -> PressArm(input, k)
      [] op = "release" -> ReleaseArm(input, k)

\* The body of the toggle / release / press closures: the loop over the
\* arguments on the local `input`.  res is "ok" when the loop finished,
\* "error" when an argument did not convert to a string (the `?`), "panic"
\* when no match arm fitted (the todo!()).
RECURSIVE ButtonLoop(_, _, _, _)
ButtonLoop(op, input, buttons, i) ==
    IF i > Len(buttons) THEN [res |-> "ok", input |-> input]
    ELSE IF ~from_lua_ok(buttons[i]) THEN [res |-> "error", input |-> input]
    ELSE LET k == ButtonBit(to_uppercase(buttons[i]))
         IN IF k = -1 THEN [res |-> "panic", input |-> input]
            ELSE ButtonLoop(op, Arm(op, input, k), buttons, i + 1)

\* The whole closure: load, loop, and the store that only a finished loop reaches.
\* a primitive that computes the new register and never stores it
PrimitiveDropsStore(op, st, buttons) ==
    [res |-> ButtonLoop(op, st, buttons, 1).res, status |-> st]

Primitive(op, st, buttons) ==
    LET r == ButtonLoop(op, st, buttons, 1)
    IN [res |-> r.res, status |-> IF r.res = "ok" THEN r.input ELSE st]

(* ------------------------------ inputs -------------------------------- *)
\* spellings the script may pass: every button under both names and in
\* several letter cases, an undefined name, and a non-string value
Names ==
    { <<"A">>, <<"a">>, <<"J", "u", "m", "p">>, <<"j", "u", "m", "p">>,
      <<"B">>, <<"r", "u", "n">>, <<"R", "U", "N">>,
      <<"U", "p">>, <<"u">>, <<"D", "o", "w", "n">>, <<"D">>,
      <<"l", "e", "f", "t">>, <<"L">>, <<"R", "i", "g", "h", "t">>, <<"r">>,
      <<"Z">>, NilValue }

\* one spelling of every button, the undefined name and the non-string
PairNames ==
    { <<"A">>, <<"r", "u", "n">>, <<"U", "p">>, <<"D">>,
      <<"l", "e", "f", "t">>, <<"r">>, <<"Z">>, NilValue }

\* the spellings used where the display thread runs alongside
FewNames == { <<"A">>, <<"U", "p">>, <<"Z">> }

Lists(S, n) == UNION { [1..m -> S] : m \in 0..n }

\* argument lists of the script-only specification: every spelling alone,
\* and every list of up to MaxButtons of the PairNames
InputLists == Lists(PairNames, MaxButtons) \cup { <<n>> : n \in Names }

\* argument lists where the display thread runs alongside
FewLists == { <<>> } \cup { <<n>> : n \in FewNames }

(* ------------------------------- frames ------------------------------- *)
\* emulator.frame(DrawOptions::All) after tick t
Render(t) == [i \in 1..NPixels |-> t]
\* the array main() puts in the slot: every channel of every pixel 0
Blank == [i \in 1..NPixels |-> 0]
NoFrame == <<>>

\* call.start is the tick count when the call began, last.elapsed the ticks
\* that went by between the call and its return
NoCall == [op |-> "none", buttons |-> <<>>, time |-> 0, before |-> 0,
           start |-> 0]
NoLast == [op |-> "none", buttons |-> <<>>, time |-> 0, before |-> 0,
           res |-> "ok", elapsed |-> 0]

VARIABLES
    phase,      \* Bootstrapping, ScriptRunning, FreeRunning, Terminated
    pc,         \* where the script thread is in run_lua / Frame::update
    bootIdx,    \* entries of the bootstrap vec already stepped
    call,       \* the wait or hold call in progress
    waitLeft,   \* iterations left in the wait loop
    calls,      \* primitive calls the script has made
    status,     \* the AtomicU8 the controller reads
    ticks,      \* emulator.next_frame() calls so far
    tickInput,  \* status as the emulator read it in the latest tick
    last,       \* the primitive call that has just returned to the script
    exec,       \* how ctx.load(..).exec() ended: pending, Ok, Err, panic
    ready,      \* Frame.ready
    frame,      \* Frame.frame, the pixel array inside the Mutex
    mutex,      \* who holds the Mutex: "free", "script", "display"
    wi,         \* pixels of the new frame already written by update
    cpc,        \* where the display thread is in Frame::frame
    ci,         \* pixels already cloned by Frame::frame
    buf,        \* the clone being built
    taken,      \* what the latest Frame::frame call returned
    published,  \* ticks whose frame was passed to Frame::update
    slotTaken,  \* the stored frame has been returned by a Frame::frame call
    drop        \* the run of calls since the latest undisturbed store

scriptVars == <<phase, pc, bootIdx, call, waitLeft, calls, status, ticks,
                tickInput, last, exec>>
slotVars == <<ready, frame, mutex, wi>>
displayVars == <<cpc, ci, buf, taken>>
ghostVars == <<published, slotTaken, drop>>
vars == <<scriptVars, slotVars, displayVars, ghostVars>>

(* ------------------------- history of the slot ------------------------ *)
\* drop.stage follows the calls around one stored frame:
\*   "storing"  an update has claimed the slot and the display thread has
\*              not moved since
\*   "stored"   that update has stored drop.A; drop.drops updates have
\*              returned since, the display thread still has not moved
\*   "taking"   the display thread has moved since, and the script thread
\*              has made no step of an update since it did; drop.takes
\*              calls of Frame::frame have returned
\*   "none"     anything else
NoDrop == [stage |-> "none", A |-> NoFrame, drops |-> 0, takes |-> 0]
Count(n) == IF n < 2 THEN n + 1 ELSE n

DropOnCas(claimed) ==
    CASE drop.stage = "stored" -> [drop EXCEPT !.drops = Count(@)]
      [] drop.stage # "stored" /\ claimed ->
            [stage |-> "storing", A |-> NoFrame, drops |-> 0, takes |-> 0]
      [] OTHER -> NoDrop

DropOnLock == IF drop.stage = "taking" THEN NoDrop ELSE drop

DropOnWrite(stored, t) ==
    CASE drop.stage = "storing" /\ stored ->
            [stage |-> "stored", A |-> Render(t), drops |-> 0, takes |-> 0]
      [] drop.stage = "taking" -> NoDrop
      [] OTHER -> drop

DropOnTake(returned) ==
    CASE drop.stage = "storing" -> NoDrop
      [] drop.stage \in {"stored", "taking"} ->
            [drop EXCEPT !.stage = "taking",
                         !.takes = IF returned THEN Count(@) ELSE @]
      [] OTHER -> drop

Init ==
    /\ phase = "Bootstrapping"
    /\ pc = "boot"
    /\ bootIdx = 0
    /\ call = NoCall
    /\ waitLeft = 0
    /\ calls = 0
    /\ status = 0
    /\ ticks = 0
    /\ tickInput = 0
    /\ last = NoLast
    /\ exec = "pending"
    /\ ready = TRUE
    /\ frame = Blank
    /\ mutex = "free"
    /\ wi = 0
    /\ cpc = "idle"
    /\ ci = 0
    /\ buf = NoFrame
    /\ taken = NoFrame
    /\ published = {}
    /\ slotTaken = FALSE
    /\ drop = NoDrop

(* ------------------------ AtomicBool and Mutex ------------------------ *)
\* a compare_exchange that finds `expected` whatever the flag holds
compare_exchange_always(current, expected) == TRUE

\* ready.compare_exchange(expected, new).is_ok()
compare_exchange(current, expected) == current = expected

\* a lock() that does not wait for the holder
lock_unguarded(m) == TRUE

\* Mutex::lock returns only when nobody holds the Mutex
lock(m) == m = "free"

\* a guard of the script thread that is never dropped
guard_kept_by_script(holder) == IF holder = "script" THEN holder ELSE "free"

\* a guard of the display thread that is never dropped
guard_kept_by_display(holder) == IF holder = "display" THEN holder ELSE "free"

\* the MutexGuard goes out of scope: the Mutex is free again
guard_drop(holder) == "free"

(* --------------------------- Frame::update ---------------------------- *)
\* where run_lua continues when update returns
AfterUpdate ==
    IF phase = "Bootstrapping"
    THEN phase' = "ScriptRunning" /\ pc' = "lua"
    ELSE /\ pc' = IF phase = "ScriptRunning" THEN "wait" ELSE "free"
         /\ UNCHANGED phase

\* ready.compare_exchange(true, false): claim the slot, or return at once
UpdateCas ==
    /\ pc = "update"
    /\ UNCHANGED exec
    /\ published' = published \cup {ticks}
    /\ IF compare_exchange(ready, TRUE)
       THEN /\ ready' = FALSE
            /\ pc' = "lock"
            /\ UNCHANGED phase
       ELSE /\ AfterUpdate
            /\ UNCHANGED ready
    /\ drop' = DropOnCas(compare_exchange(ready, TRUE))
    /\ UNCHANGED <<bootIdx, call, waitLeft, calls, status, ticks, tickInput,
                   last, frame, mutex, wi, displayVars, slotTaken>>

\* self.frame.lock(): blocks while the display thread holds the Mutex
UpdateLock ==
    /\ pc = "lock"
    /\ UNCHANGED exec
    /\ lock(mutex)
    /\ mutex' = "script"
    /\ wi' = 0
    /\ pc' = "write"
    /\ drop' = DropOnLock
    /\ UNCHANGED <<phase, bootIdx, call, waitLeft, calls, status, ticks,
                   tickInput, last, ready, frame, displayVars, published,
                   slotTaken>>

\* *frame = emulator.frame(..): the copy into the array, pixel by pixel; the
\* guard is dropped and update returns after the last pixel
UpdateWrite ==
    /\ pc = "write"
    /\ UNCHANGED exec
    /\ frame' = [frame EXCEPT ![wi + 1] = Render(ticks)[wi + 1]]
    /\ slotTaken' = FALSE
    /\ drop' = DropOnWrite(wi + 1 = NPixels, ticks)
    /\ IF wi + 1 = NPixels
       THEN /\ mutex' = guard_drop("script")
            /\ wi' = 0
            /\ AfterUpdate
       ELSE /\ wi' = wi + 1
            /\ UNCHANGED <<mutex, pc, phase>>
    /\ UNCHANGED <<bootIdx, call, waitLeft, calls, status, ticks, tickInput,
                   last, ready, displayVars, published>>

(* ------------------------------ run_lua ------------------------------- *)
\* a bootstrap loop that stops one entry short
boot_done_early(i) == i >= BootLen - 1

\* the for loop has consumed the whole vec
boot_done(i) == i = BootLen

\* one iteration of the bootstrap loop: status.store(input); next_frame()
BootStep ==
    /\ pc = "boot"
    /\ UNCHANGED exec
    /\ ~boot_done(bootIdx)
    /\ bootIdx' = bootIdx + 1
    /\ status' = Bootstrap[bootIdx + 1]
    /\ tickInput' = Bootstrap[bootIdx + 1]
    /\ ticks' = ticks + 1
    /\ UNCHANGED <<phase, pc, call, waitLeft, calls, last, slotVars,
                   displayVars, ghostVars>>

\* the loop is over: frame.update(&mut emulator)
BootPublish ==
    /\ pc = "boot"
    /\ UNCHANGED exec
    /\ boot_done(bootIdx)
    /\ pc' = "update"
    /\ UNCHANGED <<phase, bootIdx, call, waitLeft, calls, status, ticks,
                   tickInput, last, slotVars, displayVars, ghostVars>>

\* a wait loop over 0..=time
wait_range_inclusive(time) == time + 1

\* `for _ in 0..time`: the iterations the wait loop makes
wait_range(time) == time

\* the script calls wait(time)
CallWait(time) ==
    /\ pc = "lua"
    /\ UNCHANGED exec
    /\ calls < MaxCalls
    /\ calls' = calls + 1
    /\ call' = [op |-> "wait", buttons |-> <<>>, time |-> time,
                before |-> status, start |-> ticks]
    /\ waitLeft' = wait_range(time)
    /\ pc' = "wait"
    /\ UNCHANGED <<phase, bootIdx, status, ticks, tickInput, last, slotVars,
                   displayVars, ghostVars>>

\* one iteration of the wait loop up to the call of update
WaitTick ==
    /\ pc = "wait"
    /\ UNCHANGED exec
    /\ waitLeft > 0
    /\ waitLeft' = waitLeft - 1
    /\ ticks' = ticks + 1
    /\ tickInput' = status
    /\ pc' = "update"
    /\ UNCHANGED <<phase, bootIdx, call, calls, status, last, slotVars,
                   displayVars, ghostVars>>

\* the wait loop is over: Ok(()) to the script, or back into hold
WaitReturn ==
    /\ pc = "wait"
    /\ UNCHANGED exec
    /\ waitLeft = 0
    /\ IF call.op = "hold"
       THEN pc' = "hold" /\ UNCHANGED <<call, last>>
       ELSE /\ pc' = "ret"
            /\ last' = [op |-> "wait", buttons |-> <<>>, time |-> call.time,
                        before |-> call.before, res |-> "ok",
                        elapsed |-> ticks - call.start]
            /\ call' = NoCall
    /\ UNCHANGED <<phase, bootIdx, waitLeft, calls, status, ticks, tickInput,
                   slotVars, displayVars, ghostVars>>

\* the script calls toggle, press or release with the given arguments
CallButtons(op, buttons) ==
    /\ pc = "lua"
    /\ calls < MaxCalls
    /\ calls' = calls + 1
    /\ LET r == Primitive(op, status, buttons)
       IN /\ status' = r.status
          /\ last' = [op |-> op, buttons |-> buttons, time |-> 0,
                      before |-> status, res |-> r.res, elapsed |-> 0]
          /\ IF r.res = "panic"
             THEN phase' = "Terminated" /\ pc' = "exit" /\ exec' = "panic"
             ELSE pc' = "ret" /\ UNCHANGED <<phase, exec>>
    /\ UNCHANGED <<bootIdx, call, waitLeft, ticks, tickInput, slotVars,
                   displayVars, ghostVars>>

\* the script calls hold(buttons..., time): the first toggle.call
CallHold(buttons, time) ==
    /\ pc = "lua"
    /\ calls < MaxCalls
    /\ calls' = calls + 1
    /\ LET r == Primitive("toggle", status, buttons)
       IN /\ status' = r.status
          /\ CASE r.res = "ok" ->
                    /\ call' = [op |-> "hold", buttons |-> buttons,
                                time |-> time, before |-> status,
                                start |-> ticks]
                    /\ waitLeft' = wait_range(time)
                    /\ pc' = "wait"
                    /\ UNCHANGED <<phase, last, exec>>
               [] r.res = "error" ->
                    /\ last' = [op |-> "hold", buttons |-> buttons,
                                time |-> time, before |-> status,
                                res |-> "error", elapsed |-> 0]
                    /\ pc' = "ret"
                    /\ UNCHANGED <<phase, call, waitLeft, exec>>
               [] r.res = "panic" ->
                    /\ last' = [op |-> "hold", buttons |-> buttons,
                                time |-> time, before |-> status,
                                res |-> "panic", elapsed |-> 0]
                    /\ phase' = "Terminated"
                    /\ pc' = "exit"
                    /\ exec' = "panic"
                    /\ UNCHANGED <<call, waitLeft>>
    /\ UNCHANGED <<bootIdx, ticks, tickInput, slotVars, displayVars,
                   ghostVars>>

\* hold after wait.call returned: the second toggle.call, then Ok(())
HoldRelease ==
    /\ pc = "hold"
    /\ UNCHANGED exec
    /\ LET r == Primitive("toggle", status, call.buttons)
       IN /\ status' = r.status
          /\ last' = [op |-> "hold", buttons |-> call.buttons,
                      time |-> call.time, before |-> call.before,
                      res |-> r.res, elapsed |-> ticks - call.start]
    /\ call' = NoCall
    /\ pc' = "ret"
    /\ UNCHANGED <<phase, bootIdx, waitLeft, calls, ticks, tickInput,
                   slotVars, displayVars, ghostVars>>

\* the interpreter takes the primitive's result and goes on with the script
LuaResume ==
    /\ pc = "ret"
    /\ pc' = "lua"
    /\ last' = NoLast
    /\ UNCHANGED <<phase, bootIdx, call, waitLeft, calls, status, ticks,
                   tickInput, exec, slotVars, displayVars, ghostVars>>

\* a run_lua that returns once the script is over
ScriptEndReturns ==
    /\ pc = "lua"
    /\ exec' = "Ok"
    /\ phase' = "Terminated"
    /\ pc' = "exit"
    /\ UNCHANGED <<bootIdx, call, waitLeft, calls, status, ticks, tickInput,
                   last, slotVars, displayVars, ghostVars>>

\* exec() returns Ok: the scope ends and run_lua reaches the free-run loop
ScriptEnd ==
    /\ pc = "lua"
    /\ exec' = "Ok"
    /\ phase' = "FreeRunning"
    /\ pc' = "free"
    /\ UNCHANGED <<bootIdx, call, waitLeft, calls, status, ticks, tickInput,
                   last, slotVars, displayVars, ghostVars>>

\* a script thread that dies with the guard of the Mutex in its hands
ScriptFailHoldingLock ==
    /\ pc = "lua"
    /\ lock(mutex)
    /\ mutex' = "script"
    /\ exec' = "Err"
    /\ phase' = "Terminated"
    /\ pc' = "exit"
    /\ UNCHANGED <<bootIdx, call, waitLeft, calls, status, ticks, tickInput,
                   last, ready, frame, wi, displayVars, ghostVars>>

\* exec() returns Err: `?` leaves run_lua and the unwrap() ends the thread
ScriptFail ==
    /\ pc = "lua"
    /\ exec' = "Err"
    /\ phase' = "Terminated"
    /\ pc' = "exit"
    /\ UNCHANGED <<bootIdx, call, waitLeft, calls, status, ticks, tickInput,
                   last, slotVars, displayVars, ghostVars>>

\* a free-run loop that steps the emulator and never calls update
FreeTickNoUpdate ==
    /\ pc = "free"
    /\ UNCHANGED exec
    /\ ticks < BootLen + MaxTicks
    /\ ticks' = ticks + 1
    /\ tickInput' = status
    /\ UNCHANGED <<phase, pc, bootIdx, call, waitLeft, calls, status, last,
                   slotVars, displayVars, ghostVars>>

\* one iteration of the free-run loop up to the call of update
FreeTick ==
    /\ pc = "free"
    /\ UNCHANGED exec
    /\ ticks < BootLen + MaxTicks
    /\ ticks' = ticks + 1
    /\ tickInput' = status
    /\ pc' = "update"
    /\ UNCHANGED <<phase, bootIdx, call, waitLeft, calls, status, last,
                   slotVars, displayVars, ghostVars>>

(* ---------------------------- Frame::frame ---------------------------- *)
\* self.ready.store(true)
TakeStore ==
    /\ cpc = "idle"
    /\ ready' = TRUE
    /\ cpc' = "lock"
    /\ drop' = DropOnTake(FALSE)
    /\ UNCHANGED <<scriptVars, frame, mutex, wi, ci, buf, taken, published,
                   slotTaken>>

\* self.frame.lock(): blocks while the script thread holds the Mutex
TakeLock ==
    /\ cpc = "lock"
    /\ lock(mutex)
    /\ mutex' = "display"
    /\ ci' = 0
    /\ buf' = Blank
    /\ cpc' = "clone"
    /\ drop' = DropOnTake(FALSE)
    /\ UNCHANGED <<scriptVars, ready, frame, wi, taken, published, slotTaken>>

\* a clone that leaves the pixel of the new array as it was
clone_pixel_stale(src, dst, i) == dst[i]

\* one pixel of the clone: the pixel of the array inside the Mutex
clone_pixel(src, dst, i) == src[i]

\* .clone(): the copy out of the array, pixel by pixel; the guard is dropped
\* and the clone returned after the last pixel
TakeClone ==
    /\ cpc = "clone"
    /\ buf' = [buf EXCEPT ![ci + 1] = clone_pixel(frame, buf, ci + 1)]
    /\ drop' = DropOnTake(ci + 1 = NPixels)
    /\ IF ci + 1 = NPixels
       THEN /\ mutex' = guard_drop("display")
            /\ ci' = 0
            /\ taken' = buf'
            /\ slotTaken' = TRUE
            /\ cpc' = "idle"
       ELSE /\ ci' = ci + 1
            /\ UNCHANGED <<mutex, taken, slotTaken, cpc>>
    /\ UNCHANGED <<scriptVars, ready, frame, wi, published>>

(* --------------------------- specification ---------------------------- *)
Update == UpdateCas \/ UpdateLock \/ UpdateWrite

ScriptNext(L) ==
    \/ BootStep
    \/ BootPublish
    \/ Update
    \/ \E time \in 0..MaxWait : CallWait(time)
    \/ WaitTick
    \/ WaitReturn
    \/ \E op \in {"toggle", "press", "release"} :
          \E buttons \in L : CallButtons(op, buttons)
    \/ \E buttons \in L :
          \E time \in 0..MaxWait : CallHold(buttons, time)
    \/ HoldRelease
    \/ LuaResume
    \/ ScriptEnd
    \/ ScriptFail
    \/ FreeTick

DisplayNext == TakeStore \/ TakeLock \/ TakeClone

\* both threads, the script passing the short argument lists
Next == ScriptNext(FewLists) \/ DisplayNext

Spec == Init /\ [][Next]_vars

\* Both are operating-system threads that are always runnable: the display
\* thread's event loop polls, the script thread only ever waits in lock(),
\* and a lock() that is offered the Mutex again and again gets it.
FairSpec ==
    Spec /\ SF_vars(ScriptNext(FewLists)) /\ WF_vars(DisplayNext)

\* the script thread alone (the display thread is never scheduled), the
\* script passing every argument list
NextInput == ScriptNext(InputLists)

SpecInput == Init /\ [][NextInput]_vars

(* ============================ properties ============================== *)

(* ------------------------------- C1 ----------------------------------- *)
\* C1 as stated: every frame a Frame::frame call has returned is, whole, the
\* frame of a tick that was passed to an earlier Frame::update.
C1_TakenWasPublished ==
    taken # NoFrame => \E t \in published : taken = Render(t)

\* C1 amended: every frame a Frame::frame call has returned is, whole, either
\* the blank frame main() put in the slot or the frame of a tick that was
\* passed to an earlier Frame::update; it is never a mixture of two frames.
C1_NoTearing ==
    taken # NoFrame =>
        \/ taken = Blank
        \/ \E t \in published : taken = Render(t)

\* a published frame has been taken, and the display thread is now waiting
\* to clone while update is halfway through overwriting the array
C1_Witness ==
    /\ \E t \in published : taken = Render(t)
    /\ pc = "write" /\ wi > 0
    /\ cpc = "lock"

(* ------------------------------- C2 ----------------------------------- *)
\* C2: an update starts to overwrite a frame that an update stored only
\* after some Frame::frame call has returned a copy of that frame.
C2_NoOverwriteUntaken ==
    [][(pc = "lock" /\ pc' = "write" /\ frame # Blank) => slotTaken]_vars

(* ------------------------------- C3 ----------------------------------- *)
\* C3: once an update has stored frame A, the updates made while the
\* display thread does not move never get past the compare_exchange and
\* leave A stored; the Frame::frame calls made next, while the script
\* thread makes no step of an update, all return A.
C3_DropWhenBehind ==
    /\ drop.stage = "stored" => frame = drop.A /\ pc \notin {"lock", "write"}
    /\ drop.stage = "taking" => frame = drop.A
    /\ drop.stage = "taking" /\ drop.takes > 0 => taken = drop.A

\* A was stored, two further updates were dropped, then two takes returned
C3_Witness ==
    /\ drop.stage = "taking"
    /\ drop.drops >= 2
    /\ drop.takes >= 2

(* ------------------------------- C4 ----------------------------------- *)
\* a thread inside a FrameChannel operation that cannot take its next step
ScriptWaits == pc \in {"update", "lock", "write"} /\ ~ENABLED Update
DisplayWaits == cpc # "idle" /\ ~ENABLED DisplayNext

\* C4 as stated: neither thread is ever inside update / frame and unable
\* to take its next step.
C4_NeverWaits == ~ScriptWaits /\ ~DisplayWaits

\* C4 amended: a thread inside update / frame waits only at its lock(), and
\* only while the other thread holds the Mutex inside its own copy, which
\* the other thread can finish without the waiting thread moving; the Mutex
\* is held exactly by a thread that is inside its copy.
C4_WaitsOnlyForCopy ==
    /\ ScriptWaits => pc = "lock" /\ cpc = "clone" /\ ENABLED TakeClone
    /\ DisplayWaits => cpc = "lock" /\ pc = "write" /\ ENABLED UpdateWrite
    /\ mutex = "script" <=> pc = "write"
    /\ mutex = "display" <=> cpc = "clone"

\* update has claimed the slot and waits for the clone in progress
C4_Witness == ScriptWaits /\ cpc = "clone" /\ ci > 0

(* ------------------------------- C5 ----------------------------------- *)
\* C5: while the display thread is not inside Frame::frame, the script
\* thread can always take the next step of its update.
C5_PublishNeverWaitsAlone ==
    (cpc = "idle" /\ pc \in {"update", "lock", "write"}) => ENABLED Update

\* the display thread has never called Frame::frame; one update stored its
\* frame and two more have returned, the ticks going on
C5_Witness ==
    /\ cpc = "idle" /\ taken = NoFrame
    /\ drop.stage = "stored" /\ drop.drops >= 2
    /\ ticks >= BootLen + 2

(* ------------------------------- C6 ----------------------------------- *)
\* C6 as stated: however the script ends, the script thread eventually is
\* in the free-run loop.
C6_AlwaysFreeRuns == <>(phase = "FreeRunning")

\* C6 amended: the script thread eventually gets through the bootstrap and
\* the script; when exec() returned Ok it is in the free-run loop from then
\* on and every tick of the loop is followed by the next tick and its
\* update; when exec() ended in an error the thread has terminated, which
\* happens from the running script only.
C6_FreeRunsUnlessScriptFails ==
    /\ <>(exec # "pending")
    /\ [](exec = "Ok" => phase = "FreeRunning")
    /\ [](exec \in {"Err", "panic"} => phase = "Terminated")
    /\ [][phase' = "Terminated" /\ phase # "Terminated" => pc = "lua"]_vars
    /\ \A t \in BootLen..(BootLen + MaxTicks - 1) :
          (phase = "FreeRunning" /\ ticks = t)
              ~> (ticks = t + 1 /\ t + 1 \in published)

\* after a script that made calls, the free-run loop has ticked and
\* published up to the cut-off
C6_Witness ==
    /\ phase = "FreeRunning" /\ exec = "Ok" /\ calls > 0
    /\ ticks = BootLen + MaxTicks
    /\ ticks \in published

(* ------------------------------- C7 ----------------------------------- *)
Rank(p) ==
    CASE p = "Bootstrapping" -> 0
      [] p = "ScriptRunning" -> 1
      [] p = "FreeRunning" -> 2
      [] p = "Terminated" -> 3

\* C7: no step takes the script thread to an earlier phase, ScriptRunning
\* is entered only when every bootstrap entry has been stepped, and
\* FreeRunning is never left.
C7_PhaseForward ==
    [][/\ Rank(phase') >= Rank(phase)
       /\ (phase = "FreeRunning" => phase' = "FreeRunning")
       /\ (phase' = "ScriptRunning" =>
              bootIdx = BootLen /\ ticks >= BootLen)
       /\ (phase = "Bootstrapping" =>
              phase' \in {"Bootstrapping", "ScriptRunning"})]_vars

\* the thread has been through all three phases and the loop is running
C7_Witness ==
    /\ phase = "FreeRunning" /\ pc = "write"
    /\ bootIdx = BootLen /\ calls = MaxCalls

(* ------------------------- button lists ------------------------------- *)
BitOf(name) == ButtonBit(to_uppercase(name))
Defined(name) == from_lua_ok(name) /\ BitOf(name) # -1
AllDefined(buttons) == \A i \in 1..Len(buttons) : Defined(buttons[i])
\* every argument is a string and one of them names no button
HasUnknownName(buttons) ==
    /\ \A i \in 1..Len(buttons) : from_lua_ok(buttons[i])
    /\ \E i \in 1..Len(buttons) : BitOf(buttons[i]) = -1
IsPressed(st, k) == Bit(st, k) = 1
AllReleased(buttons, st) ==
    \A i \in 1..Len(buttons) : ~IsPressed(st, BitOf(buttons[i]))
AllPressed(buttons, st) ==
    \A i \in 1..Len(buttons) : IsPressed(st, BitOf(buttons[i]))
\* no button is listed twice
ListedOnce(buttons) ==
    \A i, j \in 1..Len(buttons) :
        i # j => BitOf(buttons[i]) # BitOf(buttons[j])
\* no listed direction has its opposite listed, or pressed in st
OppositesClear(buttons, st) ==
    \A i \in 1..Len(buttons) :
        LET o == Opposite(BitOf(buttons[i]))
        IN o # -1 =>
             /\ ~IsPressed(st, o)
             /\ \A j \in 1..Len(buttons) : BitOf(buttons[j]) # o

(* ------------------------------- C8 ----------------------------------- *)
\* C8: a toggle, press or release call whose arguments are strings, one of
\* them no button name, returns an error to the running script and leaves
\* the register as it was before the call.
C8_UnknownButtonRejected ==
    (last.op \in {"toggle", "press", "release"} /\ HasUnknownName(last.buttons))
        => /\ last.res = "error"
           /\ phase = "ScriptRunning"
           /\ status = last.before

(* ------------------------------- C9 ----------------------------------- *)
\* C9: once the bootstrap is over, Up and Down are never both pressed and
\* Left and Right are never both pressed; toggle(Down) from all-released
\* presses Down alone and toggle(Up) after it leaves Up alone; press(Left)
\* from all-released presses Left alone and press(Right) after it leaves
\* Right alone.
C9_DirectionalExclusion ==
    /\ phase # "Bootstrapping" =>
          /\ ~(IsPressed(status, BitUp) /\ IsPressed(status, BitDown))
          /\ ~(IsPressed(status, BitLeft) /\ IsPressed(status, BitRight))
    /\ \A op \in {"toggle", "press"} :
          (last.op = op /\ last.res = "ok" /\ Len(last.buttons) = 1) =>
             LET k == BitOf(last.buttons[1])
             IN /\ (op = "toggle" /\ k = BitDown /\ last.before = 0)
                      => status = 2 ^ BitDown
                /\ (op = "toggle" /\ k = BitUp /\ last.before = 2 ^ BitDown)
                      => status = 2 ^ BitUp
                /\ (op = "press" /\ k = BitLeft /\ last.before = 0)
                      => status = 2 ^ BitLeft
                /\ (op = "press" /\ k = BitRight /\ last.before = 2 ^ BitLeft)
                      => status = 2 ^ BitRight

\* press(Right) has just returned with Left pressed before it
C9_Witness ==
    /\ last.op = "press" /\ last.res = "ok"
    /\ Len(last.buttons) = 1 /\ BitOf(last.buttons[1]) = BitRight
    /\ last.before = 2 ^ BitLeft
    /\ status = 2 ^ BitRight

(* ------------------------------- C10 ---------------------------------- *)
\* C10 as stated: when every button listed in a hold call is released
\* before the call, every listed button is pressed while the hold waits,
\* and the register after the call equals the register before it.
C10_HoldRestores ==
    /\ (call.op = "hold" /\ AllDefined(call.buttons)
            /\ AllReleased(call.buttons, call.before))
          => AllPressed(call.buttons, status)
    /\ (last.op = "hold" /\ last.res = "ok"
            /\ AllReleased(last.buttons, last.before))
          => status = last.before

\* C10 amended: when every button listed in a hold call is a defined name,
\* listed once, released before the call, and no listed direction has its
\* opposite direction listed or pressed before the call, every listed button
\* is pressed while the hold waits (at each of its ticks), and the register
\* after the call equals the register before it.
C10_HoldRestoresApart ==
    /\ (call.op = "hold" /\ AllDefined(call.buttons)
            /\ AllReleased(call.buttons, call.before)
            /\ ListedOnce(call.buttons)
            /\ OppositesClear(call.buttons, call.before))
          => /\ AllPressed(call.buttons, status)
             /\ (waitLeft < call.time => AllPressed(call.buttons, tickInput))
    /\ (last.op = "hold" /\ last.res = "ok"
            /\ AllReleased(last.buttons, last.before)
            /\ ListedOnce(last.buttons)
            /\ OppositesClear(last.buttons, last.before))
          => status = last.before

\* a hold of two buttons over MaxWait ticks has returned, another button
\* being pressed before and after
C10_Witness ==
    /\ last.op = "hold" /\ last.res = "ok"
    /\ Len(last.buttons) = MaxButtons /\ last.time = MaxWait
    /\ AllReleased(last.buttons, last.before)
    /\ ListedOnce(last.buttons)
    /\ OppositesClear(last.buttons, last.before)
    /\ last.before # 0
    /\ status = last.before

(* ------------------------------- C11 ---------------------------------- *)
\* the one button of a hold call, -1 when the call lists another number
HeldBit(c) == IF Len(c.buttons) = 1 THEN BitOf(c.buttons[1]) ELSE -1

\* C11: a hold call that lists one button, released before the call, with
\* a time n >= 0: the call takes exactly n ticks, the button is pressed in
\* the register the emulator reads at each of them, and it is released
\* again when hold returns, no tick having gone by after the n-th.
C11_HoldSingleButton ==
    /\ (call.op = "hold" /\ HeldBit(call) # -1
            /\ ~IsPressed(call.before, HeldBit(call)))
          => /\ waitLeft \in 0..call.time
             /\ ticks = call.start + (call.time - waitLeft)
             /\ IsPressed(status, HeldBit(call))
             /\ (waitLeft < call.time
                    => IsPressed(tickInput, HeldBit(call)))
    /\ (last.op = "hold" /\ last.res = "ok" /\ HeldBit(last) # -1
            /\ ~IsPressed(last.before, HeldBit(last)))
          => /\ last.elapsed = last.time
             /\ ~IsPressed(status, HeldBit(last))
             /\ (last.time > 0 => IsPressed(tickInput, HeldBit(last)))

\* a hold of Up over MaxWait ticks has returned; Down was pressed before
C11_Witness ==
    /\ last.op = "hold" /\ last.res = "ok"
    /\ HeldBit(last) = BitUp
    /\ last.before = 2 ^ BitDown
    /\ last.time = MaxWait /\ last.elapsed = MaxWait
    /\ IsPressed(tickInput, BitUp)
    /\ ~IsPressed(status, BitUp)

(* ------------------------------- C12 ---------------------------------- *)
\* the ticks a call has seen, from the one after its start to the latest
TicksSince(start) == (start + 1)..ticks

\* C12: wait(n) takes exactly n ticks, none for n = 0; update is called
\* once after each tick, for a tick it was not called for before; the
\* register stays as it was; the script thread is nowhere but in the loop
\* or in update until wait returns Ok.
C12_WaitTicks ==
    /\ pc = "update" => ticks \notin published
    /\ call.op = "wait" =>
          /\ pc \in {"wait", "update", "lock", "write"}
          /\ waitLeft \in 0..call.time
          /\ ticks = call.start + (call.time - waitLeft)
          /\ status = call.before
          /\ \A t \in TicksSince(call.start) :
                t \in published <=> (t < ticks \/ pc # "update")
    /\ last.op = "wait" =>
          /\ last.res = "ok"
          /\ last.elapsed = last.time
          /\ status = last.before
          /\ \A t \in TicksSince(ticks - last.elapsed) : t \in published

\* wait(MaxWait) has returned while the display thread was copying
C12_Witness ==
    /\ last.op = "wait" /\ last.time = MaxWait /\ last.elapsed = MaxWait
    /\ cpc = "clone"
    /\ ticks \in published

(* ------------------------------- C13 ---------------------------------- *)
\* no listed direction has its opposite listed
NoOppositeListed(buttons) ==
    \A i, j \in 1..Len(buttons) :
        BitOf(buttons[j]) # Opposite(BitOf(buttons[i]))

\* the bits of the listed buttons and of their opposite directions
Touched(buttons) ==
    { BitOf(buttons[i]) : i \in 1..Len(buttons) }
        \cup { Opposite(BitOf(buttons[i])) : i \in 1..Len(buttons) }

\* C13 as stated: after toggle(list) with valid names, each listed button
\* that was pressed before the call is released, and each listed button
\* that was released before the call is pressed unless the directional
\* exclusion, applied after the flips, has released it in favour of its
\* opposite.
C13_ToggleFlipsEach ==
    (last.op = "toggle" /\ last.res = "ok") =>
        \A i \in 1..Len(last.buttons) :
            LET k == BitOf(last.buttons[i])
                o == Opposite(k)
            IN IF IsPressed(last.before, k)
               THEN ~IsPressed(status, k)
               ELSE \/ IsPressed(status, k)
                    \/ (o # -1 /\ IsPressed(status, o))

\* C13 amended: after toggle(list) with valid names, no button listed twice
\* and no direction listed together with its opposite, each listed button
\* is pressed exactly if it was released before the call, the opposite of
\* each listed direction is released, and every other button is as before.
C13_ToggleFlipsApart ==
    (last.op = "toggle" /\ last.res = "ok"
        /\ ListedOnce(last.buttons) /\ NoOppositeListed(last.buttons)) =>
        /\ \A i \in 1..Len(last.buttons) :
              LET k == BitOf(last.buttons[i])
                  o == Opposite(k)
              IN /\ IsPressed(status, k) <=> ~IsPressed(last.before, k)
                 /\ o # -1 => ~IsPressed(status, o)
        /\ \A k \in 0..7 :
              k \notin Touched(last.buttons) =>
                  (IsPressed(status, k) <=> IsPressed(last.before, k))

\* toggle of A and Up has released A and pressed Up, B staying pressed
C13_Witness ==
    /\ last.op = "toggle" /\ last.res = "ok"
    /\ Len(last.buttons) = MaxButtons
    /\ ListedOnce(last.buttons) /\ NoOppositeListed(last.buttons)
    /\ last.before = 2 ^ BitA + 2 ^ BitB
    /\ status = 2 ^ BitB + 2 ^ BitUp

(* ------------------------------- C14 ---------------------------------- *)
\* C14: once the script has failed (exec() returned Err, or a primitive
\* panicked) only the script thread is over: it holds no guard, the display
\* thread can always take its next step, the array holds one whole frame
\* that was passed to update and never changes again, and every call of
\* Frame::frame that returns from then on returns that frame.
C14_FailureFreezesDisplay ==
    /\ [](phase = "Terminated" =>
            /\ pc = "exit"
            /\ exec \in {"Err", "panic"}
            /\ mutex # "script"
            /\ ENABLED DisplayNext
            /\ \E t \in published : frame = Render(t))
    /\ [][phase = "Terminated" =>
            /\ frame' = frame
            /\ phase' = "Terminated"
            /\ (cpc = "clone" /\ cpc' = "idle") => taken' = frame]_vars

\* the script has failed, the frozen frame has been returned by a call of
\* Frame::frame and the next call is copying it again
C14_Witness ==
    /\ phase = "Terminated" /\ exec = "Err"
    /\ frame # Blank
    /\ slotTaken /\ taken = frame
    /\ cpc = "clone" /\ ci = 1 /\ buf[1] = frame[1]

(* ------------------------------- C15 ---------------------------------- *)
\* the free-run loop after a script that called no primitive
FreeRun == phase = "FreeRunning" /\ calls = 0
\* the tick at which the tick bound stops the free-run loop
LastTick == BootLen + MaxTicks

\* C15: after a script that calls no primitive has completed, the phase
\* stays FreeRunning and the register is never written again; every
\* iteration of the loop makes one tick and then calls update once, for
\* that tick; an update that finds the slot marked by the display thread
\* goes on to store its frame. Under fairness the ticks go on up to the
\* bound, each passed to update, and an update that has claimed the slot
\* ends with its tick's frame stored.
C15_FreeRunContinues ==
    /\ [][FreeRun =>
            /\ FreeRun'
            /\ status' = status
            /\ ticks' \in {ticks, ticks + 1}
            /\ ticks' = ticks + 1 => (pc = "free" /\ pc' = "update")
            /\ (pc = "update" /\ pc' # pc) => (pc' = "lock" <=> ready)]_vars
    /\ [](FreeRun =>
            /\ status = 0
            /\ pc \in {"free", "update", "lock", "write"}
            /\ pc = "update" => ticks \notin published
            /\ pc # "update" => ticks \in published)
    /\ FreeRun ~> (ticks = LastTick /\ pc = "free")
    /\ (FreeRun /\ pc \in {"lock", "write"})
          ~> (pc = "free" /\ frame = Render(ticks))

\* the free-run loop has stored the frame of its last tick before the
\* bound, the display thread having returned the frame before it
C15_Witness ==
    /\ FreeRun
    /\ pc = "free"
    /\ ticks = BootLen + MaxTicks
    /\ frame = Render(ticks)
    /\ taken = Render(ticks - 1)

(* ------------------------------- C16 ---------------------------------- *)
\* the spellings among Names of each button: its name and its alias, in
\* the letter cases the script may write them
SpellingGroups ==
    { { <<"A">>, <<"a">>, <<"J", "u", "m", "p">>, <<"j", "u", "m", "p">> },
      { <<"B">>, <<"r", "u", "n">>, <<"R", "U", "N">> },
      { <<"U", "p">>, <<"u">> },
      { <<"D", "o", "w", "n">>, <<"D">> },
      { <<"l", "e", "f", "t">>, <<"L">> },
      { <<"R", "i", "g", "h", "t">>, <<"r">> } }

\* C16: a press, release or toggle call that has returned left the
\* register the same call would have left from the same starting register
\* with any listed name replaced by another spelling of the same button,
\* and a call whose names are all spellings of buttons does return Ok.
C16_SpellingsAgree ==
    last.op \in {"press", "release", "toggle"} =>
        /\ (\A i \in 1..Len(last.buttons) :
                \E g \in SpellingGroups : last.buttons[i] \in g)
              => last.res = "ok"
        /\ \A i \in 1..Len(last.buttons) :
              \A g \in SpellingGroups :
                  last.buttons[i] \in g =>
                      \A other \in g :
                          LET r == Primitive(last.op, last.before,
                                     [last.buttons EXCEPT ![i] = other])
                          IN r.res = last.res /\ r.status = status

\* toggle("jump") has released the A that press had pressed
C16_Witness ==
    /\ last.op = "toggle" /\ last.res = "ok"
    /\ last.buttons = << <<"j", "u", "m", "p">> >>
    /\ last.before = 2 ^ BitA + 2 ^ BitB
    /\ status = 2 ^ BitB

(* ------------------------------- C18 ---------------------------------- *)
\* C18: when a call of Frame::frame has returned the stored frame and no
\* update has stored since, the next call of update, starting after that
\* return, finds ready = true, so that its compare_exchange claims the slot
\* and its frame is stored (only that compare_exchange ever clears ready).
C18_TakeReopensSlot ==
    [][(slotTaken /\ pc # "update" /\ pc' = "update") => ready]_vars

(* ------------------------------- C19 ---------------------------------- *)
\* C19: the tick of the frame in the slot never goes down, a call of
\* Frame::frame returns the slot's frame as it is when the call returns,
\* and so the tick of the frame it returns is never below that of the
\* frame the call before it returned.
C19_TakesInOrder ==
    [][/\ \A i \in 1..NPixels : frame'[i] >= frame[i]
       /\ (cpc = "clone" /\ cpc' = "idle") =>
             /\ taken' = frame
             /\ taken # NoFrame =>
                   \A i \in 1..NPixels : taken'[i] >= taken[i]]_vars

\* the frame after the bootstrap's has been returned and the next call of
\* Frame::frame is copying a newer one
C19_Witness ==
    /\ taken = Render(BootLen + 1)
    /\ cpc = "clone" /\ ci = 1
    /\ buf[1] = BootLen + 2

(* ------------------------------- C20 ---------------------------------- *)
\* C20: in the bootstrap loop the emulator has made one tick per entry
\* consumed, reading the register set to that entry, no tick has been
\* passed to update and the slot holds the blank array, so a call of
\* Frame::frame that returns before the last entry returns the blank
\* array; the first tick passed to update is the one of the last entry,
\* and the register is all-released when the script starts.
C20_BootstrapInvisible ==
    /\ (phase = "Bootstrapping" /\ pc = "boot") =>
          /\ ticks = bootIdx
          /\ bootIdx > 0 =>
                (status = Bootstrap[bootIdx] /\ tickInput = Bootstrap[bootIdx])
          /\ published = {}
          /\ frame = Blank
    /\ bootIdx < BootLen =>
          /\ phase = "Bootstrapping" /\ pc = "boot"
          /\ taken \in {NoFrame, Blank}
    /\ (phase = "Bootstrapping" /\ pc # "boot") =>
          /\ ticks = BootLen /\ bootIdx = BootLen
          /\ published \subseteq {BootLen}
    /\ published # {} =>
          /\ BootLen \in published
          /\ \A t \in published : t >= BootLen
    /\ (phase = "ScriptRunning" /\ calls = 0 /\ pc = "lua") =>
          (status = 0 /\ published = {BootLen})

\* the emulator has just read Start from the 33rd entry and the display
\* thread has been given the blank array
C20_Witness ==
    /\ phase = "Bootstrapping"
    /\ bootIdx = StartAt
    /\ status = 2 ^ BitStart /\ tickInput = 2 ^ BitStart
    /\ taken = Blank

====
